---- MODULE Spec2Model ----
(***************************************************************************)
(* A model of DTpy: Tensor3 / DiffusionTensor (mathematics.py,             *)
(* diffusion_tensor.py) and the statistics layer (statistics.py).          *)
(*                                                                         *)
(* Specification Spec      : one Tensor3/DiffusionTensor instance, its     *)
(*                           construction, its cached eigendecomposition   *)
(*                           and the assignment of its tensor field.       *)
(* Specification SpecStats : the interval functions and the construction  *)
(*                           of the analysis classes (statistics.py).      *)
(* Specification SpecVector: the Vector3 functions of statistics.py.       *)
(***************************************************************************)
EXTENDS Integers, Sequences, FiniteSets

VARIABLES
    tensor,     \* Tensor3.tensor of the instance, or NoTensor when none exists
    cache,      \* instance __dict__ entry of _eigendecomposition, or NoResult
    eigCalls,   \* number of np.linalg.eig calls made for the instance
    solverOut,  \* what np.linalg.eig returned for the instance, or NoResult
    lastOp,     \* the operation that ran last
    lastInput,  \* argument of the last operation, or None when it takes none
    ret,        \* value the last operation returned
    err,        \* exception the last operation raised, or "none"
    x,          \* the caller's list of scalars
    ci,         \* the confidence level, a Python float
    vs,         \* the caller's list of Vector3
    abcRecomputed, \* the interpreter's dataclass decorator recomputes
                \* __abstractmethods__ (Python 3.10 and later)
    obj,        \* the analysis object the last construction yielded, or NoObj
    sOp,        \* the statistics operation that ran last
    sArg,       \* its arguments other than x, ci and vs
    sIdx,       \* the sorted positions the last interval call selected
    sRet,       \* value the last statistics operation returned
    sErr        \* exception it raised, with its arguments, or NoError

tvars == <<tensor, cache, eigCalls, solverOut, lastOp, lastInput, ret, err>>

svars == <<x, ci, vs, abcRecomputed, obj, sOp, sArg, sIdx, sRet, sErr>>

vars == <<tvars, svars>>

None == "None"

\* The absent array.
NoTensor == <<>>

\* The absent (eVal, eVec) pair.
NoResult == [eVal |-> <<>>, eVec |-> <<>>]

\* ------------------------------------------------------------------ bounds
\* The longest flat input list handed to the constructor.
MaxElems == 10

\* ------------------------------------------------------------ array helpers
Idx == 1..3

Diag(a, b, c) == << <<a, 0, 0>>, <<0, b, 0>>, <<0, 0, c>> >>

\* The tensors the model constructs and assigns: distinct eigenvalues with
\* a negative one of the largest magnitude, two equal, three equal.
DiagTensors ==
    { Diag(-3, 1, 2), Diag(2, -3, 1), Diag(1, 1, 2), Diag(2, 1, 2), Diag(-3, -3, 1), Diag(2, 2, 2) }

\* C-order (row-major) elements of a 3x3 array.
Ravel33(m) == m[1] \o m[2] \o m[3]

\* Column j of a 3x3 array: vectors[:, j].
Column(m, j) == <<m[1][j], m[2][j], m[3][j]>>

\* An array-like constructor argument: its shape and its C-order elements.
\* The contents repeat the elements of a diagonal tensor.
Elems(d, n) == [k \in 1..n |-> Ravel33(d)[((k - 1) % 9) + 1]]

FlatInputs == { [shape |-> <<n>>, flat |-> Elems(d, n)] : n \in 0..MaxElems, d \in DiagTensors }

NestedInputs ==
    { [shape |-> <<r, c>>, flat |-> Elems(d, r * c)] : r \in 2..3, c \in 2..3, d \in DiagTensors }

\* Inputs of 9 elements carry every tensor of DiagTensors, the others one.
Inputs ==
    { a \in FlatInputs \cup NestedInputs :
        Len(a.flat) # 9 => a.flat = Elems(Diag(-3, 1, 2), Len(a.flat)) }

\* np.reshape(a, (3, 3)) with 6 elements accepted as symmetric coefficients
\* (xx, yy, zz, xy, xz, yz), as the docstring of __post_init__ suggests.
ReshapeSixToo(a) ==
    IF Len(a.flat) = 9
    THEN << SubSeq(a.flat, 1, 3), SubSeq(a.flat, 4, 6), SubSeq(a.flat, 7, 9) >>
    ELSE IF Len(a.flat) = 6
    THEN << <<a.flat[1], a.flat[4], a.flat[5]>>,
            <<a.flat[4], a.flat[2], a.flat[6]>>,
            <<a.flat[5], a.flat[6], a.flat[3]>> >>
    ELSE NoTensor

\* np.reshape(a, (3, 3)): the array of the same 9 elements in C order;
\* raises ValueError (NoTensor here) when the element count is not 9.
Reshape33(a) ==
    IF Len(a.flat) = 9
    THEN << SubSeq(a.flat, 1, 3), SubSeq(a.flat, 4, 6), SubSeq(a.flat, 7, 9) >>
    ELSE NoTensor

\* --------------------------------------------------------- eigensolver
Perms == { p \in [Idx -> Idx] : \A i, j \in Idx : i # j => p[i] # p[j] }

\* Sign patterns of the three normalised eigenvectors.
Signs == { <<1, 1, 1>>, <<1, -1, 1>> }

\* np.linalg.eig on a diagonal tensor: eigenvalue j is the diagonal entry
\* p[j] and column j of the eigenvector array is the unit vector along axis
\* p[j], of either sign; the order p is not guaranteed.
SolverOutputs(t) ==
    { [eVal |-> [j \in Idx |-> t[p[j]][p[j]]],
       eVec |-> [i \in Idx |-> [j \in Idx |-> IF i = p[j] THEN s[j] ELSE 0]]]
      : p \in Perms, s \in Signs }

\* np.argsort(eVal): an index array that puts eVal in ascending order; the
\* order among equal values is whatever the sort kind produces.
ArgSorts(v) == { p \in Perms : \A i, j \in Idx : i < j => v[p[i]] <= v[p[j]] }

\* A re-sort that forgets the reversal.
NotReversed(ascending) == ascending

\* ascending[::-1]
Reversed(ascending) == [i \in Idx |-> ascending[4 - i]]

\* eVal[descending]
TakeValues(eVal, index) == [i \in Idx |-> eVal[index[i]]]

\* eVec[descending, :] -- rows instead of columns.
TakeRows(eVec, index) == [i \in Idx |-> eVec[index[i]]]

\* eVec[:, descending]
TakeColumns(eVec, index) == [i \in Idx |-> [j \in Idx |-> eVec[i][index[j]]]]

\* Body of Tensor3._eigendecomposition after the solver returned `out` and
\* argsort returned `ascending`.
Eigendecomposition(out, ascending) ==
    LET descending == Reversed(ascending)
    IN  [eVal |-> TakeValues(out.eVal, descending),
         eVec |-> TakeColumns(out.eVec, descending)]

\* Tensor3.EigenValues: L1, L2, L3 = self._eigendecomposition[0]
EigenValues(dec) == <<dec.eVal[1], dec.eVal[2], dec.eVal[3]>>

\* Tensor3.EigenVectors: Vector3(*vectors[:, i]) for i = 0, 1, 2
EigenVectors(dec) == <<Column(dec.eVec, 1), Column(dec.eVec, 2), Column(dec.eVec, 3)>>

\* A cached_property that never stores its value.
NeverCached(c) == FALSE

\* functools.cached_property: the value is in the instance __dict__.
HasCached(c) == c # NoResult

\* ------------------------------------------------------- Python floats
\* A Python float is an IEEE binary64 number: P significant bits, results
\* rounded to nearest, ties to even. The values that occur here are
\* non-negative binary fractions; each is held exactly, as a little-endian
\* tuple of limbs of LimbBits bits, FracLimbs of them below the binary point
\* and IntLimbs above it.
P == 53

LimbBits == 16

FracLimbs == 4

IntLimbs == 1

Base == 2 ^ LimbBits

Limbs == 1..(FracLimbs + IntLimbs)

FracBits == LimbBits * FracLimbs

Width == LimbBits * (FracLimbs + IntLimbs)

\* The tuple a function over Limbs describes.
Number(f) == f \o <<>>

\* Bit k of a, bit 1 weighing 2^(-FracBits).
Bit(a, k) == (a[((k - 1) \div LimbBits) + 1] \div (2 ^ ((k - 1) % LimbBits))) % 2

\* The number with bit k alone set.
FxBit(k) == Number([i \in Limbs |-> IF i = ((k - 1) \div LimbBits) + 1
                                     THEN 2 ^ ((k - 1) % LimbBits) ELSE 0])

\* The float of the integer n, 0 <= n < Base; and the integer part of a.
FxInt(n) == Number([i \in Limbs |-> IF i = FracLimbs + 1 THEN n ELSE 0])

FxToInt(a) == a[FracLimbs + 1]

RECURSIVE AddFrom(_, _, _, _)
AddFrom(a, b, i, carry) ==
    IF i > FracLimbs + IntLimbs THEN <<>>
    ELSE <<(a[i] + b[i] + carry) % Base>> \o AddFrom(a, b, i + 1, (a[i] + b[i] + carry) \div Base)

\* Exact sum, and exact difference for a >= b.
FxAdd(a, b) == AddFrom(a, b, 1, 0)

FxSub(a, b) == AddFrom(a, Number([i \in Limbs |-> Base - 1 - b[i]]), 1, 1)

\* Exact half, for a with bit 1 clear.
FxHalf(a) ==
    Number([i \in Limbs |-> (a[i] \div 2)
                            + (IF i < FracLimbs + IntLimbs THEN (a[i + 1] % 2) * (Base \div 2) ELSE 0)])

RECURSIVE MulFrom(_, _, _, _)
MulFrom(a, n, i, carry) ==
    IF i > FracLimbs + IntLimbs THEN <<>>
    ELSE <<(a[i] * n + carry) % Base>> \o MulFrom(a, n, i + 1, (a[i] * n + carry) \div Base)

\* Exact product with an integer 0 <= n < 2^(31 - LimbBits).
FxMulInt(a, n) == MulFrom(a, n, 1, 0)

\* Position of the leading one, 0 for zero.
TopBit(a) ==
    IF \A i \in Limbs : a[i] = 0 THEN 0
    ELSE LET t == CHOOSE i \in Limbs : a[i] # 0 /\ \A j \in Limbs : j > i => a[j] = 0
         IN  (t - 1) * LimbBits
               + (CHOOSE n \in 1..LimbBits : 2 ^ (n - 1) <= a[t] /\ a[t] < 2 ^ n)

\* Bits 1..cut of a are not all zero.
LowBitsSet(a, cut) ==
    \E i \in Limbs :
        IF i * LimbBits <= cut THEN a[i] # 0
        ELSE IF (i - 1) * LimbBits < cut THEN a[i] % (2 ^ (cut - (i - 1) * LimbBits)) # 0
        ELSE FALSE

\* a with bits 1..cut cleared.
HighBits(a, cut) ==
    Number([i \in Limbs |->
        IF i * LimbBits <= cut THEN 0
        ELSE IF (i - 1) * LimbBits < cut
        THEN a[i] - (a[i] % (2 ^ (cut - (i - 1) * LimbBits)))
        ELSE a[i]])

\* a with its bits 1..cut rounded away, to nearest, ties to even; `below`
\* tells that the exact value has further non-zero bits under bit 1.
RoundAt(a, cut, below) ==
    IF /\ Bit(a, cut) = 1
       /\ (below \/ LowBitsSet(a, cut - 1) \/ Bit(a, cut + 1) = 1)
    THEN FxAdd(HighBits(a, cut), FxBit(cut + 1))
    ELSE HighBits(a, cut)

\* The float nearest to an exact result: P significant bits are kept.
FloatRound(a, below) == IF TopBit(a) <= P THEN a ELSE RoundAt(a, TopBit(a) - P, below)

\* The fractional limbs of r/q (r < q < 2^(31 - LimbBits)), j of them, and
\* the remainder they leave.
RECURSIVE QuotLimbs(_, _, _)
QuotLimbs(r, q, j) ==
    IF j = 0 THEN <<>> ELSE QuotLimbs((r * Base) % q, q, j - 1) \o <<(r * Base) \div q>>

RECURSIVE RemAfter(_, _, _)
RemAfter(r, q, j) == IF j = 0 THEN r ELSE RemAfter((r * Base) % q, q, j - 1)

\* The float a decimal literal of value p/q denotes (0.95 is 95/100).
FloatLiteral(p, q) ==
    FloatRound(QuotLimbs(p % q, q, FracLimbs)
                   \o Number([i \in 1..IntLimbs |-> IF i = 1 THEN p \div q ELSE 0]),
               RemAfter(p % q, q, FracLimbs) # 0)

\* Float arithmetic: the exact result, rounded.
FloatAdd(a, b) == FloatRound(FxAdd(a, b), FALSE)

FloatSub(a, b) == FloatRound(FxSub(a, b), FALSE)

FloatHalf(a) == FxHalf(a)

FloatMulInt(a, n) == FloatRound(FxMulInt(a, n), FALSE)

\* round(f): the nearest integer, ties to the even one.
PyRound(a) == FxToInt(RoundAt(a, FracBits, FALSE))

\* ---------------------------------------------------------- statistics
Min(a, b) == IF a <= b THEN a ELSE b

\* Place, in stable ascending order, of element j of the list.
Rank(list, j) ==
    Cardinality({ k \in 1..Len(list) : list[k] < list[j] \/ (list[k] = list[j] /\ k <= j) })

\* sorted(x): a new list, ascending; x itself is left as it is.
Sorted(list) == [i \in 1..Len(list) |-> list[CHOOSE j \in 1..Len(list) : Rank(list, j) = i]]

NoError == <<"none">>

\* list[i] for a Python list of length N: i counts from 0, a negative i
\* from the end; outside -N..N-1 it raises IndexError.
InRange(N, i) == -N <= i /\ i < N

PyIndex(list, N, i) == IF i >= 0 THEN list[i + 1] ELSE list[N + i + 1]

\* The upper index without its clamp.
Unclamped(r, N) == r

\* min(round(...), N-1)
Clamped(r, N) == Min(r, N - 1)

\* An index taken by cutting the fraction off.
IndexByTruncation(f) == FxToInt(f)

\* The index a float denotes: ci_1sided and ci_2sided use round().
IndexOf(f) == PyRound(f)

\* left = (1 - ci)/2 and right = ci + left of ci_2sided.
Left(level) == FloatHalf(FloatSub(FxInt(1), level))

Right(level) == FloatAdd(level, Left(level))

\* ci_2sided(x, ci): the positions, and the values or the IndexError.
Ci2Sided(list, level) ==
    LET N == Len(list)
        idx_L == IndexOf(FloatMulInt(Left(level), N))
        idx_R == Clamped(IndexOf(FloatMulInt(Right(level), N)), N)
        x_sorted == Sorted(list)
    IN  IF InRange(N, idx_L) /\ InRange(N, idx_R)
        THEN [idx |-> <<idx_L, idx_R>>, err |-> NoError,
              val |-> <<PyIndex(x_sorted, N, idx_L), PyIndex(x_sorted, N, idx_R)>>]
        ELSE [idx |-> <<idx_L, idx_R>>, err |-> <<"IndexError">>, val |-> <<>>]

\* ci_1sided(x, ci)
Ci1Sided(list, level) ==
    LET N == Len(list)
        idx == Clamped(IndexOf(FloatMulInt(level, N)), N)
        x_sorted == Sorted(list)
    IN  IF InRange(N, idx)
        THEN [idx |-> <<idx>>, err |-> NoError, val |-> <<PyIndex(x_sorted, N, idx)>>]
        ELSE [idx |-> <<idx>>, err |-> <<"IndexError">>, val |-> <<>>]

\* ------------------------------------------------- the analysis classes
\* Names the class bodies of ScalarAnalysis and VectorAnalysis bind.
AnalysisNamespace == {"data", "_min_data"}

\* `data` is declared field(default_factory=list): a field without a
\* class-level default, whose class attribute @dataclass deletes.
FieldsWithoutDefault == {"data"}

\* The attributes the finished classes define themselves.
ClassAttributes == AnalysisNamespace \ FieldsWithoutDefault

\* DataAnalysis.data: an abstract property without a setter.
AbstractInBase == {"data"}

\* cls.__abstractmethods__: ABCMeta computes it from the class body, where
\* `data` is bound to the field; the @dataclass of Python 3.10 and later
\* computes it again from the finished class, where `data` is inherited.
AbstractMethods(recomputed) ==
    AbstractInBase \ (IF recomputed THEN ClassAttributes ELSE AnalysisNamespace)

\* self.data = value in the generated __init__: `data` looked up on the
\* type is the inherited property, which has no setter.
DataAssignable == "data" \notin (AbstractInBase \ ClassAttributes)

\* ScalarAnalysis._min_data, VectorAnalysis._min_data
MinData == 2

NoObj == [kind |-> "none", data |-> "none"]

\* cls(list) for cls = ScalarAnalysis or VectorAnalysis: instantiation, the
\* generated __init__, then DataAnalysis.__post_init__. The object's data
\* attribute is the caller's list object itself.
NewAnalysis(kind, list, recomputed) ==
    IF AbstractMethods(recomputed) # {}
    THEN [err |-> <<"TypeError">>, obj |-> NoObj]
    ELSE IF ~DataAssignable
    THEN [err |-> <<"AttributeError">>, obj |-> NoObj]
    ELSE IF Len(list) < MinData
    THEN [err |-> <<"TooFewDataPoints", Len(list), MinData>>, obj |-> NoObj]
    ELSE [err |-> NoError, obj |-> [kind |-> kind, data |-> "caller"]]

\* What the generated dataclass Vector3 defines besides its fields x, y, z.
Vector3Methods == {"__init__", "__repr__", "__eq__"}

\* dyadic_tensor(vec): iterates vec twice, then Tensor3(outer).
DyadicTensor(vec) ==
    IF "__iter__" \notin Vector3Methods
    THEN [err |-> <<"TypeError">>, val |-> NoTensor]
    ELSE [err |-> NoError,
          val |-> Reshape33([shape |-> <<9>>,
                             flat |-> [k \in 1..9 |-> vec[((k - 1) \div 3) + 1] * vec[((k - 1) % 3) + 1]]])]

\* acos(c) for c in {0, 1}, in units of pi/2.
AcosInHalfPi(c) == IF c = 1 THEN 0 ELSE 1

Abs(n) == IF n < 0 THEN -n ELSE n

\* smallest_angle_from_ref(vec, ref): acos(abs(ref.dot(vec)))
SmallestAngle(vec, ref) ==
    IF "dot" \notin Vector3Methods
    THEN [err |-> <<"AttributeError">>, val |-> <<>>]
    ELSE [err |-> NoError,
          val |-> <<AcosInHalfPi(Abs(ref[1] * vec[1] + ref[2] * vec[2] + ref[3] * vec[3]))>>]

RECURSIVE SumOuter(_)
SumOuter(list) ==
    IF list = <<>> THEN Diag(0, 0, 0)
    ELSE LET rest == SumOuter(Tail(list))
             d == DyadicTensor(list[1]).val
         IN  [i \in Idx |-> [j \in Idx |-> rest[i][j] + d[i][j]]]

\* VectorAnalysis.mean_dyadic_tensor: sum(dyadics) / N, kept as the summed
\* array over the denominator N.
MeanDyadicTensor(list) == [num |-> SumOuter(list), den |-> Len(list)]

\* -------------------------------------------------------------- Tensor3
\* The statistics layer at rest.
SIdle ==
    /\ x = <<>>
    /\ ci = FxInt(0)
    /\ vs = <<>>
    /\ abcRecomputed = FALSE
    /\ obj = NoObj
    /\ sOp = "init"
    /\ sArg = <<>>
    /\ sIdx = <<>>
    /\ sRet = <<>>
    /\ sErr = NoError

\* No tensor instance.
TIdle ==
    /\ tensor = NoTensor
    /\ cache = NoResult
    /\ eigCalls = 0
    /\ solverOut = NoResult
    /\ lastOp = "init"
    /\ lastInput = None
    /\ ret = None
    /\ err = "none"

TInit == TIdle /\ SIdle

\* Tensor3(a) / DiffusionTensor(a): the dataclass __init__ stores the
\* argument and __post_init__ reshapes it. A raise leaves no new instance.
Construct(a) ==
    /\ UNCHANGED svars
    /\ lastOp' = "construct"
    /\ lastInput' = a
    /\ ret' = None
    /\ IF Reshape33(a) = NoTensor
       THEN /\ err' = "ValueError"
            /\ UNCHANGED <<tensor, cache, eigCalls, solverOut>>
       ELSE /\ err' = "none"
            /\ tensor' = Reshape33(a)
            /\ cache' = NoResult
            /\ eigCalls' = 0
            /\ solverOut' = NoResult

\* Evaluation of self._eigendecomposition: the stored value when there is
\* one, otherwise one run of the method body, whose result is stored.
Decompose ==
    IF HasCached(cache)
    THEN UNCHANGED <<cache, eigCalls, solverOut>>
    ELSE \E out \in SolverOutputs(tensor) : \E ascending \in ArgSorts(out.eVal) :
            /\ cache' = Eigendecomposition(out, ascending)
            /\ eigCalls' = eigCalls + 1
            /\ solverOut' = out

ReadEigenValues ==
    /\ tensor # NoTensor
    /\ Decompose
    /\ lastOp' = "EigenValues"
    /\ ret' = EigenValues(cache')
    /\ err' = "none"
    /\ lastInput' = None
    /\ UNCHANGED <<tensor, svars>>

ReadEigenVectors ==
    /\ tensor # NoTensor
    /\ Decompose
    /\ lastOp' = "EigenVectors"
    /\ ret' = EigenVectors(cache')
    /\ err' = "none"
    /\ lastInput' = None
    /\ UNCHANGED <<tensor, svars>>

LNames == <<"L1", "L2", "L3">>

ENames == <<"E1", "E2", "E3">>

\* DiffusionTensor.L1, L2, L3: self.EigenValues[i - 1]
ReadL(i) ==
    /\ tensor # NoTensor
    /\ Decompose
    /\ lastOp' = LNames[i]
    /\ ret' = EigenValues(cache')[i]
    /\ err' = "none"
    /\ lastInput' = None
    /\ UNCHANGED <<tensor, svars>>

\* DiffusionTensor.E1, E2, E3: self.EigenVectors[i - 1]
ReadE(i) ==
    /\ tensor # NoTensor
    /\ Decompose
    /\ lastOp' = ENames[i]
    /\ ret' = EigenVectors(cache')[i]
    /\ err' = "none"
    /\ lastInput' = None
    /\ UNCHANGED <<tensor, svars>>

\* instance.tensor = m: Tensor3 is a plain (not frozen) dataclass, so the
\* assignment stores m; nothing else of the instance is touched.
SetTensor(m) ==
    /\ tensor # NoTensor
    /\ tensor' = m
    /\ lastOp' = "SetTensor"
    /\ lastInput' = m
    /\ ret' = None
    /\ err' = "none"
    /\ UNCHANGED <<cache, eigCalls, solverOut, svars>>

TNext ==
    \/ \E a \in Inputs : Construct(a)
    \/ ReadEigenValues
    \/ ReadEigenVectors
    \/ \E i \in Idx : ReadL(i)
    \/ \E i \in Idx : ReadE(i)
    \/ \E m \in DiagTensors : SetTensor(m)

Spec == TInit /\ [][TNext]_vars

\* ------------------------------------------------- properties of Tensor3
Descending(v) == v[1] >= v[2] /\ v[2] >= v[3]

ValueReads == {"EigenValues", "L1", "L2", "L3"}

VectorReads == {"EigenVectors", "E1", "E2", "E3"}

\* What the property read `op` returns from the decomposition `dec`.
Projection(op, dec) ==
    CASE op = "EigenValues" -> EigenValues(dec)
      [] op = "EigenVectors" -> EigenVectors(dec)
      [] op \in {"L1", "L2", "L3"} ->
            EigenValues(dec)[CHOOSE i \in Idx : LNames[i] = op]
      [] op \in {"E1", "E2", "E3"} ->
            EigenVectors(dec)[CHOOSE i \in Idx : ENames[i] = op]

PairedAsSolver(vals, vecs) ==
    \E p \in Perms : \A i \in Idx :
        /\ vals[i] = solverOut.eVal[p[i]]
        /\ vecs[i] = Column(solverOut.eVec, p[i])

\* C2: the re-sort applies one index permutation to the eigenvalues and to
\* the eigenvector columns: EigenVectors[i] is the vector the solver paired
\* with the value now at EigenValues[i], and the pairs are a permutation of
\* the solver's pairs, also when eigenvalues are equal.
C2_PairingPreserved ==
    /\ cache # NoResult => PairedAsSolver(EigenValues(cache), EigenVectors(cache))
    /\ lastOp = "EigenVectors" => PairedAsSolver(EigenValues(cache), ret)
    /\ lastOp \in {"E1", "E2", "E3"} =>
          \E j \in Idx :
              /\ ret = Column(solverOut.eVec, j)
              /\ solverOut.eVal[j] = Projection(LNames[CHOOSE i \in Idx : ENames[i] = lastOp], cache)

\* Two equal eigenvalues, delivered by the solver around the larger one, and
\* EigenVectors read: the first vector is the solver's second column.
C2_Witness ==
    /\ lastOp = "EigenVectors"
    /\ solverOut.eVal = <<1, 2, 1>>
    /\ ret[1] = Column(solverOut.eVec, 2)
    /\ ret[2] # ret[3]

C5_ComputedOnce ==
    /\ [](/\ eigCalls <= 1
          /\ (cache # NoResult) <=> (eigCalls = 1)
          /\ lastOp \in ValueReads \cup VectorReads => ret = Projection(lastOp, cache))
    /\ [][(cache = NoResult /\ lastOp' \in ValueReads \cup VectorReads)
            => (cache' # NoResult /\ eigCalls' = 1)]_vars
    /\ [][(cache # NoResult /\ ~(lastOp' = "construct" /\ err' = "none"))
            => (cache' = cache /\ eigCalls' = eigCalls /\ solverOut' = solverOut)]_vars

\* The multiset of diagonal entries of t, as the descending triple.
SortedDiagonal(t) ==
    CHOOSE v \in [Idx -> {t[1][1], t[2][2], t[3][3]}] :
        /\ Descending(v)
        /\ \E p \in Perms : \A i \in Idx : v[i] = t[p[i]][p[i]]

\* A read that came after the first one: the decomposition was stored, the
\* tensor field was then assigned, and EigenVectors still returns the stored
\* vectors after one solver call.
C5_Witness ==
    /\ lastOp = "EigenVectors"
    /\ eigCalls = 1
    /\ <<cache.eVal[1], cache.eVal[2], cache.eVal[3]>> # SortedDiagonal(tensor)
    /\ ret = EigenVectors(cache)

\* t . v for a 3x3 array and a 3-vector.
MatVec(t, v) == [i \in Idx |-> t[i][1] * v[1] + t[i][2] * v[2] + t[i][3] * v[3]]

\* C9 (as claimed): after any sequence of constructions, property reads and
\* assignments of the tensor field, the eigenvalues and eigenvectors a read
\* returns are the decomposition of the tensor the instance holds.
C9_ReadsDecomposeHeldTensor ==
    lastOp \in ValueReads \cup VectorReads =>
        /\ EigenValues(cache) = SortedDiagonal(tensor)
        /\ \A i \in Idx :
              MatVec(tensor, EigenVectors(cache)[i])
                  = [k \in Idx |-> EigenValues(cache)[i] * EigenVectors(cache)[i][k]]

\* ------------------------------------------------------------ bounds
\* Longest list of scalars, largest scalar, longest list of vectors.
MaxN == 3

MaxVal == 2

MaxVecs == 2

\* ------------------------------------------------- the statistics layer
DataLists == UNION { [1..n -> 1..MaxVal] : n \in 0..MaxN }

\* The sample 1..100, ascending and descending.
Samples == { [i \in 1..100 |-> i], [i \in 1..100 |-> 101 - i] }

\* Confidence levels: 0.01, 0.1, 0.5, 0.9, 0.95, 0.99, and the floats
\* 2^-60 (1 - ci rounds to 1.0) and 1 - 2^-53 (the largest below 1).
Levels ==
    { FloatLiteral(1, 100), FloatLiteral(1, 10), FloatLiteral(1, 2), FloatLiteral(9, 10),
      FloatLiteral(95, 100), FloatLiteral(99, 100),
      FxBit(FracBits - 59), FxSub(FxInt(1), FxBit(FracBits - 52)) }

UnitVectors == { <<1, 0, 0>>, <<-1, 0, 0>>, <<0, 1, 0>>, <<0, 0, 1>> }

VectorLists == UNION { [1..n -> UnitVectors] : n \in 0..MaxVecs }

\* ci_2sided(x, ci)
CallCi2Sided ==
    /\ sOp' = "ci_2sided"
    /\ sArg' = <<>>
    /\ LET result == Ci2Sided(x, ci)
       IN  /\ sIdx' = result.idx
           /\ sRet' = result.val
           /\ sErr' = result.err
    /\ UNCHANGED <<x, ci, vs, abcRecomputed, obj, tvars>>

\* ci_1sided(x, ci)
CallCi1Sided ==
    /\ sOp' = "ci_1sided"
    /\ sArg' = <<>>
    /\ LET result == Ci1Sided(x, ci)
       IN  /\ sIdx' = result.idx
           /\ sRet' = result.val
           /\ sErr' = result.err
    /\ UNCHANGED <<x, ci, vs, abcRecomputed, obj, tvars>>

\* ScalarAnalysis(x)
ConstructScalarAnalysis ==
    /\ sOp' = "ScalarAnalysis"
    /\ sArg' = <<>>
    /\ sIdx' = <<>>
    /\ sRet' = <<>>
    /\ sErr' = NewAnalysis("ScalarAnalysis", x, abcRecomputed).err
    /\ obj' = NewAnalysis("ScalarAnalysis", x, abcRecomputed).obj
    /\ UNCHANGED <<x, ci, vs, abcRecomputed, tvars>>

\* VectorAnalysis(vs)
ConstructVectorAnalysis ==
    /\ sOp' = "VectorAnalysis"
    /\ sArg' = <<>>
    /\ sIdx' = <<>>
    /\ sRet' = <<>>
    /\ sErr' = NewAnalysis("VectorAnalysis", vs, abcRecomputed).err
    /\ obj' = NewAnalysis("VectorAnalysis", vs, abcRecomputed).obj
    /\ UNCHANGED <<x, ci, vs, abcRecomputed, tvars>>

\* The caller appends to, or removes from, the list it owns.
CallerAppend(v) ==
    /\ Len(x) < MaxN
    /\ x' = Append(x, v)
    /\ sOp' = "append"
    /\ sArg' = <<v>>
    /\ sIdx' = <<>>
    /\ sRet' = <<>>
    /\ sErr' = NoError
    /\ UNCHANGED <<ci, vs, abcRecomputed, obj, tvars>>

CallerPop ==
    /\ 0 < Len(x)
    /\ Len(x) <= MaxN
    /\ x' = SubSeq(x, 1, Len(x) - 1)
    /\ sOp' = "pop"
    /\ sArg' = <<>>
    /\ sIdx' = <<>>
    /\ sRet' = <<>>
    /\ sErr' = NoError
    /\ UNCHANGED <<ci, vs, abcRecomputed, obj, tvars>>

\* dyadic_tensor(vs[i])
CallDyadicTensor(i) ==
    /\ sOp' = "dyadic_tensor"
    /\ sArg' = <<vs[i]>>
    /\ sIdx' = <<>>
    /\ sRet' = DyadicTensor(vs[i]).val
    /\ sErr' = DyadicTensor(vs[i]).err
    /\ UNCHANGED <<x, ci, vs, abcRecomputed, obj, tvars>>

\* smallest_angle_from_ref(vs[i], vs[j])
CallSmallestAngle(i, j) ==
    /\ sOp' = "smallest_angle_from_ref"
    /\ sArg' = <<vs[i], vs[j]>>
    /\ sIdx' = <<>>
    /\ sRet' = SmallestAngle(vs[i], vs[j]).val
    /\ sErr' = SmallestAngle(vs[i], vs[j]).err
    /\ UNCHANGED <<x, ci, vs, abcRecomputed, obj, tvars>>

\* VectorAnalysis(vs).angles_from_mean: the construction, the mean dyadic
\* tensor, its first eigenvector, and the angle of each vector from it.
EvalAnglesFromMean ==
    /\ sOp' = "angles_from_mean"
    /\ sArg' = <<>>
    /\ sIdx' = <<>>
    /\ UNCHANGED <<x, ci, vs, abcRecomputed, obj, tvars>>
    /\ IF NewAnalysis("VectorAnalysis", vs, abcRecomputed).err # NoError
       THEN /\ sErr' = NewAnalysis("VectorAnalysis", vs, abcRecomputed).err
            /\ sRet' = <<>>
       ELSE IF \E i \in 1..Len(vs) : DyadicTensor(vs[i]).err # NoError
       THEN /\ sErr' = <<"TypeError">>
            /\ sRet' = <<>>
       ELSE \E out \in SolverOutputs(MeanDyadicTensor(vs).num) :
            \E ascending \in ArgSorts(out.eVal) :
              LET mean_E1 == EigenVectors(Eigendecomposition(out, ascending))[1]
              IN  IF \E i \in 1..Len(vs) : SmallestAngle(vs[i], mean_E1).err # NoError
                  THEN /\ sErr' = <<"AttributeError">>
                       /\ sRet' = <<>>
                  ELSE /\ sErr' = NoError
                       /\ sRet' = [i \in 1..Len(vs) |-> SmallestAngle(vs[i], mean_E1).val[1]]

\* Scalars: a list, a confidence level, an interpreter.
SInit ==
    /\ TIdle
    /\ x \in DataLists \cup Samples
    /\ ci \in Levels
    /\ vs = <<>>
    /\ abcRecomputed \in BOOLEAN
    /\ obj = NoObj
    /\ sOp = "init"
    /\ sArg = <<>>
    /\ sIdx = <<>>
    /\ sRet = <<>>
    /\ sErr = NoError

SNext ==
    \/ CallCi2Sided
    \/ CallCi1Sided
    \/ ConstructScalarAnalysis
    \/ ConstructVectorAnalysis
    \/ \E v \in 1..MaxVal : CallerAppend(v)
    \/ CallerPop

SpecStats == SInit /\ [][SNext]_vars

\* Vectors: a list of unit vectors, an interpreter.
VInit ==
    /\ TIdle
    /\ x = <<>>
    /\ ci = FloatLiteral(95, 100)
    /\ vs \in VectorLists
    /\ abcRecomputed \in BOOLEAN
    /\ obj = NoObj
    /\ sOp = "init"
    /\ sArg = <<>>
    /\ sIdx = <<>>
    /\ sRet = <<>>
    /\ sErr = NoError

VNext ==
    \/ ConstructVectorAnalysis
    \/ EvalAnglesFromMean
    \/ \E i \in 1..Len(vs) : CallDyadicTensor(i)
    \/ \E i \in 1..Len(vs) : \E j \in 1..Len(vs) : CallSmallestAngle(i, j)

SpecVector == VInit /\ [][VNext]_vars

\* ------------------------------------- properties of the statistics layer
\* The list the analysis object o works on, and its N.
ObjData(o) == IF o.kind = "VectorAnalysis" THEN vs ELSE x

ObjN(o) == Len(ObjData(o))

\* C3 (as claimed): constructing a ScalarAnalysis or a VectorAnalysis from
\* a list of 0 or 1 elements raises TooFewDataPoints with the actual count
\* and the required count 2; from a list of 2 or more it succeeds and the
\* object's N is the length of the list.
C3_ConstructionChecksCount ==
    /\ sOp = "ScalarAnalysis" =>
          IF Len(x) < 2
          THEN sErr = <<"TooFewDataPoints", Len(x), 2>> /\ obj = NoObj
          ELSE sErr = NoError /\ obj # NoObj /\ ObjN(obj) = Len(x)
    /\ sOp = "VectorAnalysis" =>
          IF Len(vs) < 2
          THEN sErr = <<"TooFewDataPoints", Len(vs), 2>> /\ obj = NoObj
          ELSE sErr = NoError /\ obj # NoObj /\ ObjN(obj) = Len(vs)

\* The list is a rearrangement of the sample 1..100.
IsSample(list) == Len(list) = 100 /\ \A v \in 1..100 : \E k \in 1..100 : list[k] = v

\* C6 (as claimed): ci_2sided with ci = 0.95 on the sample 1..100 selects
\* the sorted positions 2 and 98 and returns the values 3 and 98.
C6_Positions2And98Values3And98 ==
    (sOp = "ci_2sided" /\ IsSample(x) /\ ci = FloatLiteral(95, 100)) =>
        (sIdx = <<2, 98>> /\ sRet = <<3, 98>>)

\* C6 (amended): ci_2sided with ci = 0.95 on the sample 1..100 selects the
\* sorted positions 3 and 98 and returns the values 4 and 99.
C6_Positions3And98Values4And99 ==
    (sOp = "ci_2sided" /\ IsSample(x) /\ ci = FloatLiteral(95, 100)) =>
        (sErr = NoError /\ sIdx = <<3, 98>> /\ sRet = <<4, 99>>)

\* The call on the descending sample.
C6_Witness ==
    /\ sOp = "ci_2sided"
    /\ ci = FloatLiteral(95, 100)
    /\ Len(x) = 100
    /\ x[1] = 100
    /\ sRet = <<4, 99>>

\* v is the element at 0-based position i of the ascending order of list.
IsOrderStatistic(list, i, v) ==
    /\ \E k \in 1..Len(list) : list[k] = v
    /\ Cardinality({ k \in 1..Len(list) : list[k] < v }) <= i
    /\ i < Cardinality({ k \in 1..Len(list) : list[k] <= v })

\* C8: for a list of N >= 1 elements and a level 0 < ci < 1, ci_2sided
\* takes lower = round(left*N) and upper = min(round(right*N), N-1), these
\* satisfy 0 <= lower <= upper <= N-1 with no clamp of the lower index, no
\* index is out of range, and the call returns the elements at these
\* positions of the ascending order, lo <= hi.
C8_IndicesInRange ==
    (sOp = "ci_2sided" /\ Len(x) >= 1) =>
        /\ sErr = NoError
        /\ sIdx[1] = PyRound(FloatMulInt(Left(ci), Len(x)))
        /\ sIdx[2] = Min(PyRound(FloatMulInt(Right(ci), Len(x))), Len(x) - 1)
        /\ 0 <= sIdx[1]
        /\ sIdx[1] <= sIdx[2]
        /\ sIdx[2] <= Len(x) - 1
        /\ IsOrderStatistic(x, sIdx[1], sRet[1])
        /\ IsOrderStatistic(x, sIdx[2], sRet[2])
        /\ sRet[1] <= sRet[2]

\* ci = 0.99 on three elements: round(right*N) is 3 and the clamp makes it
\* 2; the values are the smallest and the largest.
C8_Witness ==
    /\ sOp = "ci_2sided"
    /\ x = <<2, 1, 2>>
    /\ ci = FloatLiteral(99, 100)
    /\ PyRound(FloatMulInt(Right(ci), 3)) = 3
    /\ sIdx = <<0, 2>>
    /\ sRet = <<1, 2>>

\* C10 (as claimed): an analysis object built from a list of 2 or more
\* elements works on a private copy of it, so that whatever the caller then
\* does to the list, the object keeps N >= 2.
C10_PrivateCopyKeepsMinimum ==
    /\ (sOp = "ScalarAnalysis" /\ Len(x) >= 2) => (obj # NoObj /\ obj.data # "caller")
    /\ obj # NoObj => ObjN(obj) >= 2

Neg(v) == <<-v[1], -v[2], -v[3]>>

\* C7 (as claimed): for a VectorAnalysis over 2 or more unit vectors,
\* angles_from_mean returns one angle per vector, in input order, and the
\* angle is 0 for a vector equal to the mean direction and for one
\* antiparallel to it: when all vectors lie along one axis, all angles are 0.
C7_UndirectedAngles ==
    /\ (sOp = "angles_from_mean" /\ Len(vs) >= 2) =>
          /\ sErr = NoError
          /\ Len(sRet) = Len(vs)
          /\ (\A i \in 1..Len(vs) : vs[i] \in {vs[1], Neg(vs[1])})
                => \A i \in 1..Len(vs) : sRet[i] = 0
    /\ (sOp = "smallest_angle_from_ref" /\ sArg[1] \in {sArg[2], Neg(sArg[2])}) =>
          (sErr = NoError /\ sRet = <<0>>)

====
